---- MODULE Spec2Model ----
(***************************************************************************)
(* A model of phy_fpga/crcgen.py, the CRC code generator of pyprofibus:    *)
(* the expression classes Bit, XOR and Word, the generator CrcGen and the  *)
(* command-line program at the end of the file.                            *)
(***************************************************************************)
EXTENDS Integers, Sequences, FiniteSets, TLC

VARIABLES
    args,       \* the argparse namespace of the command-line run
    pc,         \* the position of the run
    gen,        \* the CrcGen object: its __P and __nrBits
    call,       \* the gen* method being executed and its parameters
    prevWord,   \* __gen: prevWord
    word,       \* __gen: word; also the Word flatten is called on
    round,      \* __gen: the loop counter i of the unrolling loop
    nextId,     \* the identity the next XOR object gets
    ret,        \* the text a gen* method returned
    exc,        \* the exception raised and not yet handled
    stdout,     \* what the run printed to standard output
    stderr,     \* what the run printed to standard error
    exitStatus, \* the status of sys.exit
    xorItems,   \* XOR.__items of the XOR object optimize is called on
    hist        \* xorItems / word at construction and after each call

vars == <<args, pc, gen, call, prevWord, word, round, nextId, ret, exc,
          stdout, stderr, exitStatus, xorItems, hist>>

(***************************************************************************)
(* Python integer operators                                                *)
(***************************************************************************)

\* x >> n
Shr(x, n) == x \div (2 ^ n)

\* (x >> n) & 1
BitAt(x, n) == Shr(x, n) % 2

\* a ^ b on Python integers (two's complement, unbounded)
RECURSIVE PyXor(_, _)
PyXor(a, b) ==
    IF a = 0 THEN b
    ELSE IF b = 0 THEN a
    ELSE IF a = -1 THEN (-1) - b
    ELSE IF b = -1 THEN (-1) - a
    ELSE (((a % 2) + (b % 2)) % 2) + 2 * PyXor(a \div 2, b \div 2)

\* a | b on non-negative Python integers
RECURSIVE PyOr(_, _)
PyOr(a, b) ==
    IF a = 0 THEN b
    ELSE IF b = 0 THEN a
    ELSE (IF (a % 2) + (b % 2) > 0 THEN 1 ELSE 0) + 2 * PyOr(a \div 2, b \div 2)

(***************************************************************************)
(* Bit, XOR, Word                                                          *)
(***************************************************************************)

None == [kind |-> "None"]

\* Bit(name, index): a dataclass, a value
Bit(name, index) == [kind |-> "Bit", name |-> name, index |-> index]

\* XOR.__init__: assert(len(items) >= 2)
XORInitOk(items) == Len(items) >= 2

\* XOR(*items): an object with an identity
XOR(id, items) == [kind |-> "XOR", id |-> id, items |-> items]

IsBit(item) == item.kind = "Bit"

IsXOR(item) == item.kind = "XOR"

\* a == b: Bit.__eq__ for a Bit, object identity for an XOR
PyEq(a, b) ==
    IF IsBit(a) /\ IsBit(b) THEN a.name = b.name /\ a.index = b.index
    ELSE IF IsXOR(a) /\ IsXOR(b) THEN a.id = b.id
    ELSE FALSE

\* item in lst
PyIn(item, lst) == \E k \in 1..Len(lst) : PyEq(lst[k], item)

\* allBitsRecursive of a Bit and of an XOR: the leaves, left to right
RECURSIVE allBitsRecursive(_)
RECURSIVE allBitsOfItems(_, _)
allBitsRecursive(item) ==
    IF IsBit(item) THEN <<item>> ELSE allBitsOfItems(item.items, 1)

allBitsOfItems(items, k) ==
    IF k > Len(items) THEN <<>>
    ELSE allBitsRecursive(items[k]) \o allBitsOfItems(items, k + 1)

\* sum(1 if (isinstance(i, Bit) and i == item) else 0 for i in self.__items)
BitCount(item, items) ==
    Cardinality({k \in 1..Len(items) : IsBit(items[k]) /\ PyEq(items[k], item)})

\* the test of line 79: an uneven count of this bit
KeepBitEven(item, items) == BitCount(item, items) % 2 = 0

KeepBit(item, items) == BitCount(item, items) % 2 = 1

\* line 74 without effect: no item is ever found in newItems
SeenNever(item, newItems) == FALSE

\* line 74: if item in newItems: continue
Seen(item, newItems) == PyIn(item, newItems)

\* the body of the loop of XOR.optimize for one operand: the new newItems
optimizeItem(items, item, newItems) ==
    IF Seen(item, newItems) THEN newItems
    ELSE IF ~IsBit(item) THEN Append(newItems, item)
    ELSE IF KeepBit(item, items) THEN Append(newItems, item)
    ELSE newItems

\* the loop of XOR.optimize over the operands lo..hi, in order, from the
\* newItems built so far. The range is halved and the first half is evaluated
\* before the second starts, which keeps the evaluation shallow.
RECURSIVE optimizeLoop(_, _, _, _)
optimizeLoop(items, lo, hi, newItems) ==
    IF lo > hi THEN newItems
    ELSE IF lo = hi THEN optimizeItem(items, items[lo], newItems)
    ELSE LET firstHalf == optimizeLoop(items, lo, (lo + hi) \div 2, newItems)
         IN IF Len(firstHalf) >= 0
            THEN optimizeLoop(items, ((lo + hi) \div 2) + 1, hi, firstHalf)
            ELSE firstHalf

\* XOR.optimize: the new self.__items
XORoptimize(items) == optimizeLoop(items, 1, Len(items), <<>>)

\* item.optimize() of a Word's item: Bit.optimize does nothing
ItemOptimize(item) ==
    IF IsXOR(item) THEN XOR(item.id, XORoptimize(item.items)) ELSE item

Reverse(s) == [k \in 1..Len(s) |-> s[Len(s) + 1 - k]]

\* Word(*bits, MSB): the list self.__items
WordInit(bits, MSB) == IF MSB THEN Reverse(bits) ELSE bits

\* Word.__getitem__
WordAt(w, index) == w[index + 1]

\* the loop of Word.flatten from item k on. An XOR item is replaced by a new
\* XOR of its leaves (whose constructor asserts at least 2 of them); any other
\* item takes the else branch, which reads the name bit, bound neither in the
\* method nor in the module: a NameError. self.__items is assigned after the loop.
RECURSIVE flattenLoop(_, _, _, _)
flattenLoop(items, k, newItems, id) ==
    IF k > Len(items) THEN [exc |-> "None", items |-> newItems]
    ELSE IF IsXOR(items[k])
         THEN IF XORInitOk(allBitsRecursive(items[k]))
              THEN flattenLoop(items, k + 1,
                               Append(newItems, XOR(id, allBitsRecursive(items[k]))),
                               id + 1)
              ELSE [exc |-> "AssertionError", items |-> items]
    ELSE [exc |-> "NameError", items |-> items]

\* Word.flatten: the exception it ends with, and self.__items afterwards
Wordflatten(items, id) == flattenLoop(items, 1, <<>>, id)

\* Word.optimize
WordOptimize(w) == [k \in 1..Len(w) |-> ItemOptimize(w[k])]

(***************************************************************************)
(* The rendering of an expression and of the generated function            *)
(***************************************************************************)

\* Bit.py and XOR.py: the expression text, as a term
RECURSIVE py(_)
py(item) ==
    IF IsBit(item)
    THEN IF item.index # 0
         THEN [form |-> "((%s >> %d) & 1)", name |-> item.name, index |-> item.index]
         ELSE [form |-> "(%s & 1)", name |-> item.name, index |-> 0]
    ELSE [form |-> "(^)", items |-> [k \in 1..Len(item.items) |-> py(item.items[k])]]

\* Bit.verilog and XOR.verilog
RECURSIVE verilog(_)
verilog(item) ==
    IF IsBit(item)
    THEN [form |-> "%s[%d]", name |-> item.name, index |-> item.index]
    ELSE [form |-> "(^)", items |-> [k \in 1..Len(item.items) |-> verilog(item.items[k])]]

\* the value Python gives the text of py(): env maps a variable to its value
RECURSIVE EvalPy(_, _)
RECURSIVE EvalXorFrom(_, _, _, _)
EvalPy(e, env) ==
    IF e.form = "((%s >> %d) & 1)" THEN BitAt(env[e.name], e.index)
    ELSE IF e.form = "(%s & 1)" THEN env[e.name] % 2
    ELSE EvalXorFrom(e.items, 2, EvalPy(e.items[1], env), env)

EvalXorFrom(items, k, acc, env) ==
    IF k > Len(items) THEN acc
    ELSE EvalXorFrom(items, k + 1, PyXor(acc, EvalPy(items[k], env)), env)

\* "()" is the empty tuple: the line "ret |= (()) << i" is a TypeError
LineRaises(e) == e.form = "(^)" /\ Len(e.items) = 0

\* the generated function body: ret = (e0); ret |= (ei) << i; return ret
RECURSIVE AssembleFrom(_, _, _, _)
AssembleFrom(lines, k, acc, env) ==
    IF k > Len(lines) THEN acc
    ELSE AssembleFrom(lines, k + 1,
                      PyOr(acc, EvalPy(lines[k], env) * (2 ^ (k - 1))), env)

\* crc(c, d) of the function exec(pyCode) defines
CallCrc(text, c, d) ==
    LET env == [n \in {text.crcVarName, text.dataVarName} |->
                    IF n = text.crcVarName THEN c ELSE d]
    IN AssembleFrom(text.lines, 2, EvalPy(text.lines[1], env), env)

CallCrcRaises(text) == \E k \in 1..Len(text.lines) : LineRaises(text.lines[k])

\* crc8_ref of the self-test
RECURSIVE crc8_refLoop(_, _, _)
crc8_refLoop(data, P, n) ==
    IF n = 0 THEN data
    ELSE crc8_refLoop(PyXor(2 * data, IF BitAt(data, 7) = 1 THEN P ELSE 0) % 256,
                      P, n - 1)

crc8_ref(crc, data, P) == crc8_refLoop(PyXor(data, crc), P, 8)

(***************************************************************************)
(* CrcGen                                                                  *)
(***************************************************************************)

NoCall == [fn |-> "none", genFunction |-> FALSE,
           dataVarName |-> "", crcVarName |-> "", caller |-> ""]

NoGen == [P |-> 0, nrBits |-> 0, built |-> FALSE]

NoText == [target |-> "none"]

NoArgs == [python |-> FALSE, verilog_function |-> FALSE, verilog_module |-> FALSE,
           c |-> FALSE, test |-> FALSE, polynomial |-> 0, nr_bits |-> 0]

\* CrcGen.__init__: assert(P & 1)
CrcGenInitOk(P) == P % 2 = 1

CrcGen(P, nrBits) == [P |-> P, nrBits |-> nrBits, built |-> TRUE]

\* __gen, line 127, with the assertion left out
GenAssertNone(nrBits) == TRUE

\* __gen, line 127: assert(self.__nrBits == 8)
GenAssertOk(nrBits) == nrBits = 8

\* [ Bit(name, i) for i in reversed(range(8)) ]
BitList(name) == [k \in 1..8 |-> Bit(name, 8 - k)]

\* base built from the data bits alone
GenBaseNoXor(dataVarName, crcVarName, id) ==
    WordInit(BitList(dataVarName), TRUE)

\* __gen, lines 129-132: inData, inCrc and base
GenBase(dataVarName, crcVarName, id) ==
    LET inData == WordInit(BitList(dataVarName), TRUE)
        inCrc  == WordInit(BitList(crcVarName), TRUE)
    IN WordInit([k \in 1..8 |->
                    XOR(id + k - 1, <<WordAt(inData, 8 - k), WordAt(inCrc, 8 - k)>>)],
                TRUE)

\* p with the tap read one bit too low
pTapBelow(a, b, bitNr, P, id) ==
    IF a.kind = "None" THEN b
    ELSE IF BitAt(P, bitNr - 1) = 1 THEN XOR(id, <<a, b>>)
    ELSE a

\* __gen, lines 134-139: p(a, b, bitNr)
p(a, b, bitNr, P, id) ==
    IF a.kind = "None" THEN b
    ELSE IF BitAt(P, bitNr) = 1 THEN XOR(id, <<a, b>>)
    ELSE a

\* __gen, lines 143-150: the Word of one unrolling round
GenRoundWord(prev, P, id) ==
    WordInit(<<p(WordAt(prev, 6), WordAt(prev, 7), 7, P, id),
               p(WordAt(prev, 5), WordAt(prev, 7), 6, P, id + 1),
               p(WordAt(prev, 4), WordAt(prev, 7), 5, P, id + 2),
               p(WordAt(prev, 3), WordAt(prev, 7), 4, P, id + 3),
               p(WordAt(prev, 2), WordAt(prev, 7), 3, P, id + 4),
               p(WordAt(prev, 1), WordAt(prev, 7), 2, P, id + 5),
               p(WordAt(prev, 0), WordAt(prev, 7), 1, P, id + 6),
               p(None,            WordAt(prev, 7), 0, P, id + 7)>>,
             TRUE)

\* the text genPython, genVerilog and genC return: the target, the polynomial
\* of the comment line, the parameter names and one expression per bit
GenText(c, g, w) ==
    [target |-> IF c.fn = "genPython" THEN "python"
                ELSE IF c.fn = "genC" THEN "c"
                ELSE IF c.genFunction THEN "verilog function"
                ELSE "verilog module",
     polynomial |-> g.P,
     nrBits |-> g.nrBits,
     crcVarName |-> c.crcVarName,
     dataVarName |-> c.dataVarName,
     lines |-> [k \in 1..Len(w) |->
                   IF c.fn = "genVerilog" THEN verilog(w[k]) ELSE py(w[k])]]

\* genPython / genVerilog / genC, first line: word = self.__gen(...), whose
\* first line is the assertion on the width
GenAssert ==
    /\ pc = "gen"
    /\ IF GenAssertOk(gen.nrBits)
       THEN pc' = "gen_base" /\ exc' = exc
       ELSE pc' = "raised" /\ exc' = "AssertionError"
    /\ UNCHANGED <<args, gen, call, prevWord, word, round, nextId, ret,
                   stdout, stderr, exitStatus, xorItems, hist>>

\* __gen, lines 129-141
GenBaseStep ==
    /\ pc = "gen_base"
    /\ prevWord' = GenBase(call.dataVarName, call.crcVarName, nextId)
    /\ nextId' = nextId + 8
    /\ round' = 0
    /\ pc' = "gen_round"
    /\ UNCHANGED <<args, gen, call, word, ret, exc,
                   stdout, stderr, exitStatus, xorItems, hist>>

\* __gen, lines 142-151: one iteration of for i in range(8)
GenRound ==
    /\ pc = "gen_round"
    /\ round < 8
    /\ word' = GenRoundWord(prevWord, gen.P, nextId)
    /\ prevWord' = word'
    /\ nextId' = nextId + 8
    /\ round' = round + 1
    /\ pc' = IF round + 1 < 8 THEN "gen_round" ELSE "gen_flatten"
    /\ UNCHANGED <<args, gen, call, ret, exc,
                   stdout, stderr, exitStatus, xorItems, hist>>

\* __gen, line 153: word.flatten()
GenFlatten ==
    /\ pc = "gen_flatten"
    /\ LET r == Wordflatten(word, nextId) IN
        /\ word' = r.items
        /\ exc' = IF r.exc = "None" THEN exc ELSE r.exc
        /\ pc' = IF r.exc = "None" THEN "gen_optimize" ELSE "raised"
    /\ nextId' = nextId + 8
    /\ UNCHANGED <<args, gen, call, prevWord, round, ret,
                   stdout, stderr, exitStatus, xorItems, hist>>

\* __gen, lines 154-156: word.optimize(); return word
GenOptimize ==
    /\ pc = "gen_optimize"
    /\ word' = WordOptimize(word)
    /\ pc' = "emit"
    /\ UNCHANGED <<args, gen, call, prevWord, round, nextId, ret, exc,
                   stdout, stderr, exitStatus, xorItems, hist>>

\* genPython / genVerilog / genC after __gen: build the lines and return
Emit ==
    /\ pc = "emit"
    /\ ret' = GenText(call, gen, word)
    /\ pc' = "returned"
    /\ UNCHANGED <<args, gen, call, prevWord, word, round, nextId, exc,
                   stdout, stderr, exitStatus, xorItems, hist>>

GenSteps == GenAssert \/ GenBaseStep \/ GenRound \/ GenFlatten \/ GenOptimize \/ Emit

(***************************************************************************)
(* Use as a library: a CrcGen of any width, and one gen* call              *)
(***************************************************************************)

\* the widths a caller may pass: 1..MaxNrBits
MaxNrBits == 12

\* the polynomials of the library runs: the odd ones up to MaxApiPoly
MaxApiPoly == 9

GenMethods ==
    { [fn |-> "genPython", genFunction |-> FALSE,
       dataVarName |-> "data", crcVarName |-> "crc", caller |-> "api"],
      [fn |-> "genVerilog", genFunction |-> TRUE,
       dataVarName |-> "inData", crcVarName |-> "inCrc", caller |-> "api"],
      [fn |-> "genVerilog", genFunction |-> FALSE,
       dataVarName |-> "inData", crcVarName |-> "inCrc", caller |-> "api"],
      [fn |-> "genC", genFunction |-> FALSE,
       dataVarName |-> "data", crcVarName |-> "crc", caller |-> "api"] }

InitRest ==
    /\ call = NoCall
    /\ prevWord = <<>>
    /\ word = <<>>
    /\ round = 0
    /\ nextId = 1
    /\ ret = NoText
    /\ exc = "None"
    /\ stdout = <<>>
    /\ stderr = <<>>
    /\ exitStatus = -1
    /\ xorItems = <<>>
    /\ hist = <<>>

InitApi ==
    /\ pc = "constructed"
    /\ args = NoArgs
    /\ \E P \in 1..MaxApiPoly, nrBits \in 1..MaxNrBits :
          /\ CrcGenInitOk(P)
          /\ gen = CrcGen(P, nrBits)
    /\ InitRest

\* a caller invokes genPython(), genVerilog(genFunction=...) or genC()
ApiCall ==
    /\ pc = "constructed"
    /\ \E m \in GenMethods : call' = m
    /\ pc' = "gen"
    /\ UNCHANGED <<args, gen, prevWord, word, round, nextId, ret, exc,
                   stdout, stderr, exitStatus, xorItems, hist>>

NextApi == ApiCall \/ GenSteps

SpecApi == InitApi /\ [][NextApi]_vars

(***************************************************************************)
(* The command-line program                                                *)
(***************************************************************************)

\* the options -p, -v, -m and -c that are set
GroupSet(a) ==
    {o \in {"python", "verilog_function", "verilog_module", "c"} :
        \/ o = "python" /\ a.python
        \/ o = "verilog_function" /\ a.verilog_function
        \/ o = "verilog_module" /\ a.verilog_module
        \/ o = "c" /\ a.c}

\* a parser without the mutually exclusive group
GroupConflictNone(a) == FALSE

\* lines 271-275: the mutually exclusive group g holds -p, -v, -m and -c
GroupConflict(a) == Cardinality(GroupSet(a)) > 1

\* line 277: choices=[8,]
NrBitsChoiceOk(a) == a.nr_bits \in {8}

\* the validation without its range test
PolynomialInvalidOddOnly(a) == ~(a.polynomial % 2 = 1)

\* line 287: not (args.polynomial & 1) or args.polynomial > ((1 << args.nr_bits) - 1)
PolynomialInvalid(a) ==
    \/ ~(a.polynomial % 2 = 1)
    \/ a.polynomial > (1 * (2 ^ a.nr_bits)) - 1

\* the largest value of range(256), lines 301 and 302
ByteMax == 255

\* in this model the self-test loops visit TestSamples + 1 values spread
\* evenly over range(256), 0 and 255 among them
TestSamples == 31

TestVals == {(k * ByteMax) \div TestSamples : k \in 0..TestSamples}

\* lines 301-304: some pair on which crc8_ref and the generated crc differ
TestFails(text, P) ==
    \E c \in TestVals, d \in TestVals : crc8_ref(c, d, P) # CallCrc(text, c, d)

\* lines 270-285: parse_args; an argparse error prints the usage and the
\* error to standard error and leaves with sys.exit(2)
ParseArgs ==
    /\ pc = "start"
    /\ IF GroupConflict(args) \/ ~NrBitsChoiceOk(args)
       THEN /\ stderr' = Append(stderr, "usage error")
            /\ exitStatus' = 2
            /\ pc' = "exited"
       ELSE /\ pc' = "parsed"
            /\ UNCHANGED <<stderr, exitStatus>>
    /\ UNCHANGED <<args, gen, call, prevWord, word, round, nextId, ret, exc,
                   stdout, xorItems, hist>>

\* lines 287-288
Validate ==
    /\ pc = "parsed"
    /\ IF PolynomialInvalid(args)
       THEN pc' = "raised" /\ exc' = "Invalid polynomial."
       ELSE pc' = "validated" /\ exc' = exc
    /\ UNCHANGED <<args, gen, call, prevWord, word, round, nextId, ret,
                   stdout, stderr, exitStatus, xorItems, hist>>

\* line 289: gen = CrcGen(P=args.polynomial, nrBits=args.nr_bits)
Construct ==
    /\ pc = "validated"
    /\ IF CrcGenInitOk(args.polynomial)
       THEN /\ gen' = CrcGen(args.polynomial, args.nr_bits)
            /\ pc' = "constructed"
            /\ exc' = exc
       ELSE /\ gen' = gen
            /\ pc' = "raised"
            /\ exc' = "AssertionError"
    /\ UNCHANGED <<args, call, prevWord, word, round, nextId, ret,
                   stdout, stderr, exitStatus, xorItems, hist>>

\* the gen* call of lines 291 and 307-328, with the default names
MainCall(a) ==
    IF a.test
    THEN [fn |-> "genPython", genFunction |-> FALSE,
          dataVarName |-> "data", crcVarName |-> "crc", caller |-> "main"]
    ELSE IF a.python
    THEN [fn |-> "genPython", genFunction |-> FALSE,
          dataVarName |-> "data", crcVarName |-> "crcIn", caller |-> "main"]
    ELSE IF a.verilog_function
    THEN [fn |-> "genVerilog", genFunction |-> TRUE,
          dataVarName |-> "data", crcVarName |-> "crcIn", caller |-> "main"]
    ELSE IF a.verilog_module
    THEN [fn |-> "genVerilog", genFunction |-> FALSE,
          dataVarName |-> "data", crcVarName |-> "crcIn", caller |-> "main"]
    ELSE IF a.c
    THEN [fn |-> "genC", genFunction |-> FALSE,
          dataVarName |-> "data", crcVarName |-> "crcIn", caller |-> "main"]
    ELSE NoCall

\* lines 290-291 and 306-329: the mode dispatch; with no mode, sys.exit(0)
Dispatch ==
    /\ pc = "constructed"
    /\ call = NoCall
    /\ IF MainCall(args) = NoCall
       THEN /\ exitStatus' = 0
            /\ pc' = "exited"
            /\ call' = call
       ELSE /\ call' = MainCall(args)
            /\ pc' = "gen"
            /\ exitStatus' = exitStatus
    /\ UNCHANGED <<args, gen, prevWord, word, round, nextId, ret, exc,
                   stdout, stderr, xorItems, hist>>

\* lines 292-305 and 329: exec(pyCode), the test loops, sys.exit(0)
RunTest ==
    /\ pc = "returned"
    /\ call.caller = "main"
    /\ args.test
    /\ IF CallCrcRaises(ret)
       THEN /\ stdout' = Append(stdout, "Testing...")
            /\ exc' = "TypeError"
            /\ pc' = "raised"
            /\ exitStatus' = exitStatus
       ELSE IF TestFails(ret, args.polynomial)
       THEN /\ stdout' = Append(stdout, "Testing...")
            /\ exc' = "Test failed."
            /\ pc' = "raised"
            /\ exitStatus' = exitStatus
       ELSE /\ stdout' = stdout \o <<"Testing...", "done.">>
            /\ exc' = exc
            /\ pc' = "exited"
            /\ exitStatus' = 0
    /\ UNCHANGED <<args, gen, call, prevWord, word, round, nextId, ret,
                   stderr, xorItems, hist>>

\* lines 307-329: print(gen.gen...(...)), sys.exit(0)
PrintText ==
    /\ pc = "returned"
    /\ call.caller = "main"
    /\ ~args.test
    /\ stdout' = Append(stdout, ret)
    /\ exitStatus' = 0
    /\ pc' = "exited"
    /\ UNCHANGED <<args, gen, call, prevWord, word, round, nextId, ret, exc,
                   stderr, xorItems, hist>>

\* lines 330-332: except Exception: print the error, sys.exit(1)
HandleException ==
    /\ pc = "raised"
    /\ stderr' = Append(stderr, "ERROR: " \o exc)
    /\ exitStatus' = 1
    /\ exc' = "None"
    /\ pc' = "exited"
    /\ UNCHANGED <<args, gen, call, prevWord, word, round, nextId, ret,
                   stdout, xorItems, hist>>

InitMainRest ==
    /\ pc = "start"
    /\ gen = NoGen
    /\ call = NoCall
    /\ prevWord = <<>>
    /\ word = <<>>
    /\ round = 0
    /\ nextId = 1
    /\ ret = NoText
    /\ exc = "None"
    /\ stdout = <<>>
    /\ stderr = <<>>
    /\ exitStatus = -1
    /\ xorItems = <<>>
    /\ hist = <<>>

\* the polynomials of the command-line runs: -1..MaxCliPoly and the values
\* around 2^8 - 1
MaxCliPoly == 8

CliPolys == (-1..MaxCliPoly) \cup ((2 ^ 8 - 2)..(2 ^ 8 + 1))

\* the widths of the command-line runs: 7..MaxCliNrBits
MaxCliNrBits == 9

\* any combination of the mode options, a polynomial and a width
Init ==
    /\ args \in [python : BOOLEAN, verilog_function : BOOLEAN,
                 verilog_module : BOOLEAN, c : BOOLEAN, test : BOOLEAN,
                 polynomial : CliPolys, nr_bits : 7..MaxCliNrBits]
    /\ InitMainRest

Next ==
    \/ ParseArgs \/ Validate \/ Construct \/ Dispatch
    \/ GenSteps
    \/ RunTest \/ PrintText \/ HandleException

Spec == Init /\ [][Next]_vars

\* the polynomials of the self-test runs: 0..MaxTestPoly
MaxTestPoly == 255

\* crcgen.py -T -P <polynomial>
InitTest ==
    /\ args \in [python : {FALSE}, verilog_function : {FALSE},
                 verilog_module : {FALSE}, c : {FALSE}, test : {TRUE},
                 polynomial : 0..MaxTestPoly, nr_bits : {8}]
    /\ InitMainRest

NextTest ==
    \/ ParseArgs \/ Validate \/ Construct \/ Dispatch
    \/ GenSteps
    \/ RunTest \/ HandleException

SpecTest == InitTest /\ [][NextTest]_vars

(***************************************************************************)
(* XOR.optimize called on an XOR object with any operands                  *)
(***************************************************************************)

\* the Bits the operands are drawn from: crc[0..MaxBitIndex], data[0..MaxBitIndex]
MaxBitIndex == 1

\* the longest operand list
MaxOperands == 4

\* the number of optimize calls on one object
MaxOptimizeCalls == 2

\* the longest Word flatten is called on
MaxWordLen == 3

Bits == {Bit(n, k) : n \in {"crc", "data"}, k \in 0..MaxBitIndex}

\* two XOR objects with the same operands, and one that holds the first
XorObjects ==
    { XOR(1, <<Bit("crc", 0), Bit("data", 0)>>),
      XOR(2, <<Bit("crc", 0), Bit("data", 0)>>),
      XOR(3, <<XOR(1, <<Bit("crc", 0), Bit("data", 0)>>), Bit("crc", 1)>>) }

SeqsUpTo(S, lo, hi) == UNION {[1..n -> S] : n \in lo..hi}

InitOpt ==
    /\ pc = "built"
    /\ xorItems \in SeqsUpTo(Bits \cup XorObjects, 2, MaxOperands)
    /\ hist = <<xorItems>>
    /\ args = NoArgs
    /\ gen = NoGen
    /\ call = NoCall
    /\ prevWord = <<>>
    /\ word = <<>>
    /\ round = 0
    /\ nextId = 4
    /\ ret = NoText
    /\ exc = "None"
    /\ stdout = <<>>
    /\ stderr = <<>>
    /\ exitStatus = -1

\* a call of optimize() on the XOR object
OptimizeCall ==
    /\ pc = "built"
    /\ Len(hist) <= MaxOptimizeCalls
    /\ xorItems' = XORoptimize(xorItems)
    /\ hist' = Append(hist, xorItems')
    /\ UNCHANGED <<args, pc, gen, call, prevWord, word, round, nextId, ret, exc,
                   stdout, stderr, exitStatus>>

SpecOpt == InitOpt /\ [][OptimizeCall]_vars

(***************************************************************************)
(* Word.flatten called on a Word with any items                            *)
(***************************************************************************)

InitFlat ==
    /\ pc = "built"
    /\ word \in SeqsUpTo(Bits \cup XorObjects, 1, MaxWordLen)
    /\ hist = <<word>>
    /\ xorItems = <<>>
    /\ args = NoArgs
    /\ gen = NoGen
    /\ call = NoCall
    /\ prevWord = <<>>
    /\ round = 0
    /\ nextId = 4
    /\ ret = NoText
    /\ exc = "None"
    /\ stdout = <<>>
    /\ stderr = <<>>
    /\ exitStatus = -1

\* a call of flatten() on the Word
FlattenCall ==
    /\ pc = "built"
    /\ LET r == Wordflatten(word, nextId) IN
        /\ word' = r.items
        /\ exc' = r.exc
        /\ pc' = IF r.exc = "None" THEN "flattened" ELSE "raised"
        /\ hist' = Append(hist, r.items)
    /\ nextId' = nextId + Len(word)
    /\ UNCHANGED <<args, gen, call, prevWord, round, ret,
                   stdout, stderr, exitStatus, xorItems>>

SpecFlat == InitFlat /\ [][FlattenCall]_vars

(***************************************************************************)
(* The claims                                                              *)
(***************************************************************************)

\* C1: for every odd polynomial and width 8, the generated function (the 8
\* per-bit formulas after the 8 rounds, flatten and optimize, bit i assembled
\* at position i) returns crc8_ref(c, d) for every test value c and d.
C1_GeneratedEqualsReference ==
    (pc = "returned" /\ ret.target = "python") =>
        /\ ~CallCrcRaises(ret)
        /\ \A c \in TestVals, d \in TestVals :
              CallCrc(ret, c, d) = crc8_ref(c, d, gen.P)

\* the self-test of polynomial 0x1D has gone through all its pairs and passed
C1_Witness ==
    /\ pc = "exited"
    /\ gen.built /\ gen.P = 29
    /\ exitStatus = 0
    /\ stdout = <<"Testing...", "done.">>

\* the polynomial is even or greater than 2^width - 1
PolynomialBad(a) ==
    a.polynomial % 2 = 0 \/ a.polynomial > (2 ^ a.nr_bits) - 1

\* nothing of the generator has run: no CrcGen, no gen* call, no Word, no text
NoGeneration ==
    /\ ~gen.built
    /\ call = NoCall
    /\ prevWord = <<>>
    /\ word = <<>>
    /\ ret.target = "none"
    /\ stdout = <<>>

\* C2: a command-line run with an even polynomial, or one above 2^width - 1,
\* constructs no CrcGen and runs no generation step, and it ends with a
\* message on standard error and a non-zero exit status.
C2_BadPolynomialRejected ==
    PolynomialBad(args) =>
        /\ NoGeneration
        /\ pc \in {"start", "parsed", "raised", "exited"}
        /\ pc = "exited" => (exitStatus \in {1, 2} /\ stderr # <<>>)
        /\ pc # "exited" => ENABLED Next

\* polynomial 0x08 with width 8 was rejected by the validation of line 287
C2_Witness ==
    /\ args.polynomial = 8 /\ args.nr_bits = 8
    /\ pc = "exited"
    /\ exitStatus = 1
    /\ stderr = <<"ERROR: Invalid polynomial.">>

\* C3: for a CrcGen built with a width other than 8, each of genPython,
\* genVerilog and genC fails with the assertion of __gen and returns no text.
C3_WidthNot8Fails ==
    (gen.built /\ gen.nrBits # 8) =>
        /\ ret.target = "none"
        /\ prevWord = <<>> /\ word = <<>>
        /\ pc \in {"constructed", "gen", "raised"}
        /\ pc = "raised" => exc = "AssertionError"
        /\ pc = "gen" => ENABLED GenAssert

\* genVerilog was called on a CrcGen of width 9 and failed
C3_Witness ==
    /\ gen.built /\ gen.nrBits = 9
    /\ call.fn = "genVerilog"
    /\ pc = "raised"
    /\ exc = "AssertionError"

\* the modes of the five a run requests
ModeSet(a) == GroupSet(a) \cup (IF a.test THEN {"test"} ELSE {})

\* C4, as stated: whenever more than one of the five modes (python, verilog
\* function, verilog module, C, self-test) is requested, the run is rejected
\* with an error before any generation work begins.
C4_AnyTwoModesRejected ==
    Cardinality(ModeSet(args)) > 1 =>
        /\ NoGeneration
        /\ pc = "exited" => exitStatus # 0

\* C4, amended: whenever more than one of the four generation modes (python,
\* verilog function, verilog module, C) is requested, the run is rejected with
\* an error before any generation work begins; the self-test option is not
\* exclusive with them: with exactly one generation mode the run is not
\* rejected for it, only the self-test runs and the generation mode is ignored.
C4_TwoGenerationModesRejected ==
    /\ Cardinality(GroupSet(args)) > 1 =>
          /\ NoGeneration
          /\ pc \in {"start", "exited"}
          /\ pc = "exited" => (exitStatus = 2 /\ stderr # <<>>)
    /\ (args.test /\ Cardinality(GroupSet(args)) = 1) =>
          /\ pc = "start" => ENABLED ParseArgs
          /\ (pc = "parsed" /\ args.nr_bits = 8) => ENABLED Validate
          /\ call # NoCall => call = MainCall([args EXCEPT !.python = FALSE,
                                   !.verilog_function = FALSE,
                                   !.verilog_module = FALSE, !.c = FALSE])
          /\ (pc = "exited" /\ args.nr_bits = 8 /\ ~PolynomialBad(args)) =>
                /\ exitStatus = 0
                /\ stdout = <<"Testing...", "done.">>

\* -p and -v together were rejected by the parser
C4_Witness ==
    /\ args.python /\ args.verilog_function
    /\ ~PolynomialBad(args) /\ args.nr_bits = 8
    /\ pc = "exited"
    /\ exitStatus = 2

\* the operands at the positions K of items, in order
RECURSIVE PickFrom(_, _, _)
PickFrom(items, K, k) ==
    IF k > Len(items) THEN <<>>
    ELSE IF k \in K THEN <<items[k]>> \o PickFrom(items, K, k + 1)
    ELSE PickFrom(items, K, k + 1)

AllBits(items) == \A k \in 1..Len(items) : IsBit(items[k])

\* the positions of the first occurrences of the Bits of odd multiplicity
OddFirstOccurrences(items) ==
    {k \in 1..Len(items) :
        /\ IsBit(items[k])
        /\ \A j \in 1..(k - 1) : items[j] # items[k]
        /\ Cardinality({j \in 1..Len(items) : items[j] = items[k]}) % 2 = 1}

\* C5: on a flat exclusive-or of Bits, optimize leaves exactly the distinct
\* Bits that occur an odd number of times, each once, in the order of their
\* first occurrence; Bits of even multiplicity are removed.
C5_OddMultiplicityKeptOnce ==
    (Len(hist) >= 2 /\ AllBits(hist[1])) =>
        hist[2] = PickFrom(hist[1], OddFirstOccurrences(hist[1]), 1)

\* data[0] once and crc[0] three times: each stays once, data[0] first
C5_Witness ==
    /\ Len(hist) >= 2
    /\ hist[1] = <<Bit("data", 0), Bit("crc", 0), Bit("crc", 0), Bit("crc", 0)>>
    /\ hist[2] = <<Bit("data", 0), Bit("crc", 0)>>

\* C6: on a flat exclusive-or of Bits, the operands after two calls of
\* optimize are the operands after one call.
C6_OptimizeIdempotent ==
    (Len(hist) >= 3 /\ AllBits(hist[1])) => hist[3] = hist[2]

\* a second call after a first one that removed operands and kept some
C6_Witness ==
    /\ Len(hist) >= 3
    /\ AllBits(hist[1])
    /\ Len(hist[2]) < Len(hist[1])
    /\ Len(hist[2]) >= 1

\* C7: flatten of a Word that holds a bare Bit completes, leaves the Bit at
\* its position and replaces each XOR by a flat XOR of its leaves.
C7_FlattenPassesBareBits ==
    (Len(hist) >= 2 /\ \E k \in 1..Len(hist[1]) : IsBit(hist[1][k])) =>
        /\ pc = "flattened"
        /\ exc = "None"
        /\ Len(word) = Len(hist[1])
        /\ \A k \in 1..Len(hist[1]) :
              IF IsBit(hist[1][k])
              THEN word[k] = hist[1][k]
              ELSE /\ IsXOR(word[k])
                   /\ word[k].items = allBitsRecursive(hist[1][k])

\* C8: for every odd polynomial, every position of the base Word and of the
\* Word of each unrolling round holds an XOR, and flatten never takes its
\* branch for an item that is not an XOR.
C8_EveryPositionIsXor ==
    /\ pc \in {"gen_round", "gen_flatten", "gen_optimize"} => Len(prevWord) = 8
    /\ \A k \in 1..Len(prevWord) : IsXOR(prevWord[k])
    /\ \A k \in 1..Len(word) : IsXOR(word[k])
    /\ exc # "NameError"

\* polynomial 0x07, whose rounds pass most positions on without a new XOR,
\* has gone through the 8 rounds and flatten
C8_Witness ==
    /\ gen.built /\ gen.P = 7
    /\ round = 8
    /\ pc = "gen_optimize"

\* the number of occurrences of the object item among items
Occurrences(item, items) ==
    Cardinality({k \in 1..Len(items) : IsXOR(items[k]) /\ items[k].id = item.id})

\* the Bits of items, in order
BitsOf(items) == PickFrom(items, {k \in 1..Len(items) : IsBit(items[k])}, 1)

\* C9: optimize keeps every occurrence of every operand that is not a Bit,
\* also of one object that occurs several times, and such operands do not
\* count toward the multiplicity of the Bits.
C9_NonBitOperandsAllKept ==
    Len(hist) >= 2 =>
        /\ \A k \in 1..Len(hist[1]) :
              IsXOR(hist[1][k]) =>
                  Occurrences(hist[1][k], hist[2]) = Occurrences(hist[1][k], hist[1])
        /\ BitsOf(hist[2]) =
              PickFrom(BitsOf(hist[1]), OddFirstOccurrences(BitsOf(hist[1])), 1)

\* C10: for every odd polynomial, each of the 8 positions of the Word __gen
\* returns is an XOR of at least 2 operands, all of them Bits, no Bit twice.
C10_OptimizedPositionsWellFormed ==
    (pc \in {"emit", "returned"} \/ ret.target # "none") =>
        /\ Len(word) = 8
        /\ \A k \in 1..Len(word) :
              /\ IsXOR(word[k])
              /\ Len(word[k].items) >= 2
              /\ AllBits(word[k].items)
              /\ \A j1, j2 \in 1..Len(word[k].items) :
                    j1 # j2 => word[k].items[j1] # word[k].items[j2]

\* polynomial 0xFF: optimize has cancelled operands at every position (510
\* leaves at position 7 before it)
C10_Witness ==
    /\ gen.built /\ gen.P = 255
    /\ pc = "emit"
    /\ \A k \in 1..Len(word) : Len(word[k].items) <= 16

====
